---- MODULE Spec2Model ----
(***************************************************************************)
(* A model of standup_snitch.py: the pipeline run() (read the four         *)
(* configuration files, request the channel history once, fold it into a   *)
(* per-user activity dict, print the report) and the functions it is made  *)
(* of.  Python dicts are modelled with their insertion order: a dict is a  *)
(* record [keys, val], keys the sequence of keys in insertion order and    *)
(* val the function from the keys to their values.  Text is modelled by    *)
(* TLA+ strings, built with \o as the code builds them with % and join.    *)
(***************************************************************************)
EXTENDS Integers, Sequences, FiniteSets, TLC

VARIABLES
    files,            \* the four configuration files and the snapshot directory
    response,         \* what slack_api.call_slack('channels.history') answers
    clock,            \* DT.datetime.now(), in whole seconds since the epoch
    args,             \* run: args (num_days, dry_run)
    pc,               \* position in run() or in the function under test
    token,            \* run: token
    input_channel,    \* run: input_channel (a csv row: a function on the header)
    output_channel,   \* run: output_channel
    users,            \* run: users, aggregate_activity: users
    message_history,  \* run: message_history, aggregate_activity: history
    active_users,     \* run: active_users, aggregate_activity: user_activity_dict
    idx,              \* aggregate_activity: position of the for loop in history
    introduction,     \* run: introduction
    conclusion,       \* run: conclusion
    stdout,           \* the sequence of writes print() has made
    calls,            \* the requests made through slack_api.call_slack
    snapshot,         \* content of sensitive/channels.history.json
    error,            \* the exception that ended the invocation, or "none"
    runs,             \* how many times the program has been started
    prev,             \* what the previous invocation of the program left behind
    post_invocations, \* how often post_message has been invoked
    post_raised       \* how often post_message has raised

vars == <<files, response, clock, args, pc, token, input_channel, output_channel,
          users, message_history, active_users, idx, introduction, conclusion,
          stdout, calls, snapshot, error, runs, prev, post_invocations, post_raised>>

-----------------------------------------------------------------------------
(* Bounds of the model *)

MaxUsers == 2
MaxLen == 3
MaxRecords == 2
MaxRuns == 2
MaxPosts == 1

(* Constants of the program *)

HistoryCount == 1000
SecondsPerDay == 86400
DefaultNumDays == 10

-----------------------------------------------------------------------------
(* Generic helpers: bounded sequences, Python dicts, str.join *)

BoundedSeq(S, n) == UNION {[1..k -> S] : k \in 0..n}

Range(s) == {s[i] : i \in DOMAIN s}

EmptyDict == [keys |-> <<>>, val |-> <<>>]

KeySet(d) == Range(d.keys)

\* d[k] = v: an existing key keeps its place, a new key is appended.
DictSet(d, k, v) ==
    IF k \in KeySet(d)
    THEN [keys |-> d.keys, val |-> [x \in KeySet(d) |-> IF x = k THEN v ELSE d.val[x]]]
    ELSE [keys |-> Append(d.keys, k),
          val |-> [x \in KeySet(d) \cup {k} |-> IF x = k THEN v ELSE d.val[x]]]

\* sep.join(items)
RECURSIVE Join(_, _)
Join(sep, items) ==
    IF items = <<>> THEN ""
    ELSE IF Len(items) = 1 THEN items[1]
    ELSE items[1] \o sep \o Join(sep, Tail(items))

\* [x for x in s if keep[x]]
RECURSIVE SelectKeys(_, _)
SelectKeys(s, keep) ==
    IF s = <<>> THEN <<>>
    ELSE IF s[1] \in keep THEN <<s[1]>> \o SelectKeys(Tail(s), keep)
    ELSE SelectKeys(Tail(s), keep)

-----------------------------------------------------------------------------
(* The inputs the model enumerates *)

UserIds == {"U1", "U2", "U3"}

RealName(u) == CASE u = "U1" -> "Alice" [] u = "U2" -> "Bob" [] OTHER -> "Carol"
UserName(u) == CASE u = "U1" -> "alice" [] u = "U2" -> "bob" [] OTHER -> "carol"

\* One data row of the user file, as csv.DictReader gives it under a full header.
UserRow(u) == [user_id |-> u, user_name |-> UserName(u), real_name |-> RealName(u)]

Ts == "1700000000.000100"

\* Messages as get_message_history returns them, and one without a user.
MessagePool == {[user |-> u, ts |-> Ts] : u \in UserIds} \cup {[ts |-> Ts]}

Histories == BoundedSeq(MessagePool, MaxLen)

-----------------------------------------------------------------------------
(* format_user_for_text, aggregate_activity, make_introduction, make_conclusion *)

\* format_user_for_text with the markup of format_user_for_slack.
format_user_for_text_markup(user_id, user_info) ==
    "<@" \o user_id \o "|" \o user_info["user_name"] \o ">"

format_user_for_text(user_id, user_info) ==
    user_info["real_name"] \o " (" \o user_info["user_name"] \o ")"

\* Lines 59-62: every user of the roster starts as False.
RECURSIVE InitActivity(_, _)
InitActivity(d, keys) ==
    IF keys = <<>> THEN d
    ELSE InitActivity(DictSet(d, keys[1], FALSE), Tail(keys))

\* RecordMessage with the entry flipped instead of set.
RecordMessageToggle(user_activity_dict, message) ==
    IF "user" \notin DOMAIN message
    THEN user_activity_dict
    ELSE DictSet(user_activity_dict, message["user"],
                 IF message["user"] \in KeySet(user_activity_dict)
                 THEN ~user_activity_dict.val[message["user"]]
                 ELSE TRUE)

\* Lines 65-70, the body of the loop over history: message['user'] raises
\* KeyError when the message has no user, and the except clause passes; the
\* assignment user_activity_dict[user] = True never raises.
RecordMessage(user_activity_dict, message) ==
    IF "user" \notin DOMAIN message
    THEN user_activity_dict
    ELSE DictSet(user_activity_dict, message["user"], TRUE)

RECURSIVE FoldMessages(_, _)
FoldMessages(d, history) ==
    IF history = <<>> THEN d
    ELSE FoldMessages(RecordMessage(d, history[1]), Tail(history))

aggregate_activity(history, roster) ==
    FoldMessages(InitActivity(EmptyDict, roster.keys), history)

make_introduction(channel, n_days) ==
    "Who's NOT present in the last " \o ToString(n_days) \o " days on #"
        \o channel["channel_name"] \o "?"

NonPosters(active) ==
    SelectKeys(active.keys, {u \in KeySet(active) : active.val[u] = FALSE})

TagItems(non_posters, roster) ==
    [i \in DOMAIN non_posters |->
        format_user_for_text(non_posters[i], roster.val[non_posters[i]])]

\* users[user_id] raises KeyError for a non-poster that is not in the roster.
make_conclusion(active, roster) ==
    LET non_posters == NonPosters(active) IN
    IF Len(non_posters) = 0 THEN [error |-> "none", value |-> "Go team!"]
    ELSE IF ~(Range(non_posters) \subseteq KeySet(roster))
         THEN [error |-> "KeyError", value |-> ""]
         ELSE [error |-> "none", value |-> Join(", \n", TagItems(non_posters, roster))]

-----------------------------------------------------------------------------
(* The configuration files and the chat service's answers *)

ChannelColumns == {"channel_id", "channel_name"}
UserColumns == {"user_id", "user_name", "real_name"}

InputRow == [channel_id |-> "C100", channel_name |-> "standup"]
OutputRow == [channel_id |-> "C200", channel_name |-> "mentors"]

MissingFile == [exists |-> FALSE, header |-> {}, rows |-> <<>>]
CsvFile(header, rows) == [exists |-> TRUE, header |-> header, rows |-> rows]

\* A channel file: missing, or a header (full, or one column short) over
\* no data row or one.
ChannelFiles(row) ==
    {MissingFile} \cup
    {CsvFile(h, r) : h \in {ChannelColumns, {"channel_id"}, {"channel_name"}},
                     r \in {<<>>, <<row>>}}

\* The user file: missing, or a header (full, or one column short) over
\* these rows; the same user may be listed twice.
UserFileRows ==
    {<<>>, <<UserRow("U1")>>, <<UserRow("U1"), UserRow("U2")>>,
     <<UserRow("U2"), UserRow("U1")>>, <<UserRow("U1"), UserRow("U1")>>}

UserFiles ==
    {MissingFile} \cup
    {CsvFile(h, r) : h \in {UserColumns} \cup {UserColumns \ {c} : c \in UserColumns},
                     r \in UserFileRows}

TokenFiles == {[exists |-> FALSE, content |-> <<>>],
               [exists |-> TRUE, content |-> <<"xoxp-1", "\n">>]}

GoodConfig ==
    [token |-> [exists |-> TRUE, content |-> <<"xoxp-1", "\n">>],
     input |-> CsvFile(ChannelColumns, <<InputRow>>),
     output |-> CsvFile(ChannelColumns, <<OutputRow>>),
     user |-> CsvFile(UserColumns, <<UserRow("U1"), UserRow("U2")>>),
     sensitive_dir |-> TRUE]

\* The good configuration with one of its four files replaced, or without the
\* directory sensitive/ that the snapshot is written into.
Configs ==
    {[GoodConfig EXCEPT !.sensitive_dir = FALSE]} \cup
    {[GoodConfig EXCEPT !.token = f] : f \in TokenFiles} \cup
    {[GoodConfig EXCEPT !.input = f] : f \in ChannelFiles(InputRow)} \cup
    {[GoodConfig EXCEPT !.output = f] : f \in ChannelFiles(OutputRow)} \cup
    {[GoodConfig EXCEPT !.user = f] : f \in UserFiles}

\* Records of a history response: well-formed messages of users of the user
\* file and of an untracked user, and records with a wrong type or short of a field.
RawRecords ==
    {[type |-> "message", user |-> "U1", ts |-> Ts],
     [type |-> "message", user |-> "U2", ts |-> Ts],
     [type |-> "message", user |-> "U9", ts |-> Ts],
     [type |-> "channel_join", user |-> "U1", ts |-> Ts],
     [type |-> "message", ts |-> Ts],
     [type |-> "message", user |-> "U1"],
     [user |-> "U1", ts |-> Ts]}

\* call_slack raises, or answers an error document, or a list of records.
Responses ==
    {[raises |-> TRUE, body |-> [ok |-> FALSE]],
     [raises |-> FALSE, body |-> [ok |-> FALSE, error |-> "invalid_auth"]]} \cup
    {[raises |-> FALSE, body |-> [ok |-> TRUE, messages |-> m]] :
        m \in BoundedSeq(RawRecords, MaxRecords)}

Now == 20 * SecondsPerDay

NumDays == {7, DefaultNumDays}

-----------------------------------------------------------------------------
(* read_config_files *)

\* str.strip() of the token file's content, kept as its pieces.
IsSpace(piece) == piece \in {" ", "\n", "\t"}

RECURSIVE StripLeft(_)
StripLeft(content) ==
    IF content # <<>> /\ IsSpace(content[1]) THEN StripLeft(Tail(content)) ELSE content

RECURSIVE StripRight(_)
StripRight(content) ==
    IF content # <<>> /\ IsSpace(content[Len(content)])
    THEN StripRight(SubSeq(content, 1, Len(content) - 1))
    ELSE content

Strip(content) == Join("", StripRight(StripLeft(content)))

\* csv.DictReader: each data row becomes a dict keyed by the header.
DictRow(file, i) == [c \in file.header |-> file.rows[i][c]]

\* Lines 124-126: the dict comprehension over the rows of the user file.
RECURSIVE ReadUsers(_, _, _)
ReadUsers(d, file, i) ==
    IF i > Len(file.rows) THEN d
    ELSE LET user == DictRow(file, i) IN
         ReadUsers(DictSet(d, user["user_id"],
                           [user_name |-> user["user_name"],
                            real_name |-> user["real_name"],
                            user_id |-> user["user_id"]]),
                   file, i + 1)

ConfigFailure(e) ==
    [error |-> e, token |-> "", input_channel |-> <<>>, output_channel |-> <<>>,
     users |-> EmptyDict]

read_config_files(f) ==
    IF ~f.token.exists THEN ConfigFailure("FileNotFoundError")
    ELSE IF ~f.input.exists THEN ConfigFailure("FileNotFoundError")
    ELSE IF f.input.rows = <<>> THEN ConfigFailure("StopIteration")
    ELSE IF ~f.output.exists THEN ConfigFailure("FileNotFoundError")
    ELSE IF f.output.rows = <<>> THEN ConfigFailure("StopIteration")
    ELSE IF ~f.user.exists THEN ConfigFailure("FileNotFoundError")
    ELSE IF f.user.rows # <<>> /\ ~(UserColumns \subseteq f.user.header)
         THEN ConfigFailure("KeyError")
    ELSE [error |-> "none",
          token |-> Strip(f.token.content),
          input_channel |-> DictRow(f.input, 1),
          output_channel |-> DictRow(f.output, 1),
          users |-> ReadUsers(EmptyDict, f.user, 1)]

-----------------------------------------------------------------------------
(* get_message_history *)

timestamp_for_days_ago(now, n_days) == now - n_days * SecondsPerDay

\* str() of a float that holds a whole number of seconds.
FloatStr(n) == ToString(n) \o ".0"

ProgressLine(channel_name, channel_id, days, ts) ==
    "Looking at history of channel " \o channel_name \o " (" \o channel_id
        \o ") for " \o ToString(days) \o " days.  Oldest timestamp requested: "
        \o FloatStr(ts)

HistoryCall(tok, channel_id, ts) ==
    [method |-> "channels.history",
     params |-> [token |-> tok, channel |-> channel_id, oldest |-> ts,
                 count |-> HistoryCount]]

\* Lines 52-56: message['type'] raises KeyError on a record without a type;
\* 'user' in message and 'ts' in message are only tested after it.
RECURSIVE FilterMessages(_)
FilterMessages(records) ==
    IF records = <<>> THEN [error |-> "none", value |-> <<>>]
    ELSE LET message == records[1] IN
         IF "type" \notin DOMAIN message THEN [error |-> "KeyError", value |-> <<>>]
         ELSE LET rest == FilterMessages(Tail(records)) IN
              IF rest.error # "none" THEN rest
              ELSE IF message["type"] = "message" /\ "user" \in DOMAIN message
                      /\ "ts" \in DOMAIN message
                   THEN [error |-> "none",
                         value |-> <<[user |-> message["user"], ts |-> message["ts"]]>>
                                   \o rest.value]
                   ELSE rest

-----------------------------------------------------------------------------
(* The debug ranking of run, lines 156-161 *)

\* Counter(map(lambda x: x['user'], message_history)): counts, keyed in the
\* order of first appearance.
RECURSIVE CountUsers(_, _)
CountUsers(d, history) ==
    IF history = <<>> THEN d
    ELSE LET u == history[1]["user"] IN
         CountUsers(DictSet(d, u, IF u \in KeySet(d) THEN d.val[u] + 1 ELSE 1),
                    Tail(history))

\* Counter.most_common(): a stable sort by descending count.
RECURSIVE MostCommon(_, _)
MostCommon(keys, count) ==
    IF keys = <<>> THEN <<>>
    ELSE LET top == CHOOSE i \in DOMAIN keys :
                        /\ \A j \in DOMAIN keys : count[keys[j]] <= count[keys[i]]
                        /\ \A j \in 1..(i - 1) : count[keys[j]] < count[keys[i]]
         IN <<keys[top]>> \o
            MostCommon(SubSeq(keys, 1, top - 1) \o SubSeq(keys, top + 1, Len(keys)),
                       count)

\* repr() of a roster entry, its keys in the order line 124 inserts them.
UserRepr(info) ==
    "{'user_name': '" \o info["user_name"] \o "', 'real_name': '" \o info["real_name"]
        \o "', 'user_id': '" \o info["user_id"] \o "'}"

\* print(a, b, c) writes the three separated by spaces, then a newline.
RankingLine(info, n) ==
    info["real_name"] \o " " \o ToString(n) \o " " \o UserRepr(info) \o "\n"

RankingLines(history, roster) ==
    LET counter == CountUsers(EmptyDict, history)
        ranked == MostCommon(counter.keys, counter.val)
        shown == SelectKeys(ranked, KeySet(roster))
    IN [i \in DOMAIN shown |-> RankingLine(roster.val[shown[i]], counter.val[shown[i]])]

\* FullMessage with an empty line between the two parts.
FullMessageBlankLine(intro, concl) == Join("\n", <<intro, "", concl>>)

\* Line 169
FullMessage(intro, concl) == Join("\n", <<intro, concl>>)

\* post_message without the raise: the request is made.
post_message_enabled(made, tok, channel, text, bot_name) ==
    [raised |-> FALSE,
     calls |-> Append(made, [method |-> "chat.postMessage",
                             params |-> [token |-> tok, channel |-> channel,
                                         text |-> text, username |-> bot_name]])]

\* Lines 87-93: the raise comes first, the call after it is never reached.
post_message(made, tok, channel, text, bot_name) ==
    [raised |-> TRUE, calls |-> made]

-----------------------------------------------------------------------------
(* The state before an invocation of the program has done anything *)

NoPrev == [valid |-> FALSE, dry_run |-> FALSE, pc |-> "", stdout |-> <<>>, calls |-> <<>>]

Fresh ==
    /\ token = ""
    /\ input_channel = <<>>
    /\ output_channel = <<>>
    /\ users = EmptyDict
    /\ message_history = <<>>
    /\ active_users = EmptyDict
    /\ idx = 0
    /\ introduction = ""
    /\ conclusion = ""
    /\ stdout = <<>>
    /\ calls = <<>>
    /\ error = "none"

Init ==
    /\ files \in Configs
    /\ response \in Responses
    /\ clock = Now
    /\ args \in [num_days : NumDays, dry_run : BOOLEAN]
    /\ pc = "read_config"
    /\ Fresh
    /\ snapshot = [written |-> FALSE, doc |-> <<>>]
    /\ runs = 1
    /\ prev = NoPrev
    /\ post_invocations = 0
    /\ post_raised = 0

Terminated == pc \in {"done", "aborted"}

\* An uncaught exception ends the invocation.
Abort(e) == pc' = "aborted" /\ error' = e

-----------------------------------------------------------------------------
(* run(), step by step *)

\* Line 141
ReadConfigFiles ==
    /\ pc = "read_config"
    /\ LET r == read_config_files(files) IN
       /\ IF r.error # "none" THEN Abort(r.error)
          ELSE pc' = "fetch" /\ error' = error
       /\ token' = r.token
       /\ input_channel' = r.input_channel
       /\ output_channel' = r.output_channel
       /\ users' = r.users
    /\ UNCHANGED <<files, response, clock, args, message_history, active_users, idx,
                   introduction, conclusion, stdout, calls, snapshot, runs, prev,
                   post_invocations, post_raised>>

\* Lines 144-147 (the arguments are evaluated first) and 43-49: the progress
\* line is printed, then the request is made.
HistoryRequest ==
    /\ pc = "fetch"
    /\ IF ~(ChannelColumns \subseteq DOMAIN input_channel)
       THEN Abort("KeyError") /\ UNCHANGED <<stdout, calls>>
       ELSE LET ts == timestamp_for_days_ago(clock, args.num_days) IN
            /\ stdout' = Append(stdout,
                   ProgressLine(input_channel["channel_name"],
                                input_channel["channel_id"], args.num_days, ts) \o "\n")
            /\ calls' = Append(calls, HistoryCall(token, input_channel["channel_id"], ts))
            /\ pc' = "await_history"
            /\ error' = error
    /\ UNCHANGED <<files, response, clock, args, token, input_channel, output_channel,
                   users, message_history, active_users, idx, introduction, conclusion,
                   snapshot, runs, prev, post_invocations, post_raised>>

\* HistoryResponse with a failed call sent again.
HistoryResponseRetry ==
    /\ pc = "await_history"
    /\ IF response.raises
       THEN pc' = "fetch" /\ UNCHANGED <<snapshot, message_history, error>>
       ELSE IF ~files.sensitive_dir
       THEN Abort("FileNotFoundError") /\ UNCHANGED <<snapshot, message_history>>
       ELSE /\ snapshot' = [written |-> TRUE, doc |-> response.body]
            /\ IF "messages" \notin DOMAIN response.body
               THEN Abort("KeyError") /\ UNCHANGED message_history
               ELSE LET r == FilterMessages(response.body["messages"]) IN
                    IF r.error # "none"
                    THEN Abort(r.error) /\ UNCHANGED message_history
                    ELSE /\ message_history' = r.value
                         /\ pc' = "aggregate"
                         /\ error' = error
    /\ UNCHANGED <<files, response, clock, args, token, input_channel, output_channel,
                   users, active_users, idx, introduction, conclusion, stdout, calls,
                   runs, prev, post_invocations, post_raised>>

\* Lines 45-56: the call returns or raises; the raw answer is written to the
\* snapshot file (the model keeps the document the JSON text encodes); the
\* records are filtered.
HistoryResponse ==
    /\ pc = "await_history"
    /\ IF response.raises
       THEN Abort("SlackError") /\ UNCHANGED <<snapshot, message_history>>
       ELSE IF ~files.sensitive_dir
       THEN Abort("FileNotFoundError") /\ UNCHANGED <<snapshot, message_history>>
       ELSE /\ snapshot' = [written |-> TRUE, doc |-> response.body]
            /\ IF "messages" \notin DOMAIN response.body
               THEN Abort("KeyError") /\ UNCHANGED message_history
               ELSE LET r == FilterMessages(response.body["messages"]) IN
                    IF r.error # "none"
                    THEN Abort(r.error) /\ UNCHANGED message_history
                    ELSE /\ message_history' = r.value
                         /\ pc' = "aggregate"
                         /\ error' = error
    /\ UNCHANGED <<files, response, clock, args, token, input_channel, output_channel,
                   users, active_users, idx, introduction, conclusion, stdout, calls,
                   runs, prev, post_invocations, post_raised>>

\* Lines 150-153
Aggregate ==
    /\ pc = "aggregate"
    /\ active_users' = aggregate_activity(message_history, users)
    /\ introduction' = make_introduction(input_channel, args.num_days)
    /\ pc' = "ranking"
    /\ UNCHANGED <<files, response, clock, args, token, input_channel, output_channel,
                   users, message_history, idx, conclusion, stdout, calls, snapshot,
                   error, runs, prev, post_invocations, post_raised>>

\* Lines 156-164
Ranking ==
    /\ pc = "ranking"
    /\ stdout' = stdout \o <<"\nMOST ACTIVE: (for debug purposes)" \o "\n">>
                        \o RankingLines(message_history, users)
                        \o <<"\n\n\n" \o "\n">>
    /\ pc' = "conclude"
    /\ UNCHANGED <<files, response, clock, args, token, input_channel, output_channel,
                   users, message_history, active_users, idx, introduction, conclusion,
                   calls, snapshot, error, runs, prev, post_invocations, post_raised>>

\* Line 166
Conclude ==
    /\ pc = "conclude"
    /\ LET r == make_conclusion(active_users, users) IN
       IF r.error # "none"
       THEN Abort(r.error) /\ UNCHANGED conclusion
       ELSE conclusion' = r.value /\ pc' = "publish" /\ error' = error
    /\ UNCHANGED <<files, response, clock, args, token, input_channel, output_channel,
                   users, message_history, active_users, idx, introduction, stdout,
                   calls, snapshot, runs, prev, post_invocations, post_raised>>

\* Publish with the report printed on a dry run only.
PublishGated ==
    /\ pc = "publish"
    /\ \/ /\ args.dry_run
          /\ stdout' = Append(stdout, FullMessage(introduction, conclusion) \o "\n")
       \/ /\ ~args.dry_run
          /\ stdout' = stdout
    /\ pc' = "done"
    /\ UNCHANGED <<files, response, clock, args, token, input_channel, output_channel,
                   users, message_history, active_users, idx, introduction, conclusion,
                   calls, snapshot, error, runs, prev, post_invocations, post_raised>>

\* Lines 169-177: both branches of "if dry_run" print the report; the call of
\* post_message is commented out.
Publish ==
    /\ pc = "publish"
    /\ \/ /\ args.dry_run
          /\ stdout' = Append(stdout, FullMessage(introduction, conclusion) \o "\n")
       \/ /\ ~args.dry_run
          /\ stdout' = Append(stdout, FullMessage(introduction, conclusion) \o "\n")
    /\ pc' = "done"
    /\ UNCHANGED <<files, response, clock, args, token, input_channel, output_channel,
                   users, message_history, active_users, idx, introduction, conclusion,
                   calls, snapshot, error, runs, prev, post_invocations, post_raised>>

\* Line 179: the program is started again, on the same files and against the
\* same answer of the chat service, with or without --dry_run.
Restart ==
    /\ Terminated
    /\ runs < MaxRuns
    /\ runs' = runs + 1
    /\ prev' = [valid |-> TRUE, dry_run |-> args.dry_run, pc |-> pc,
                stdout |-> stdout, calls |-> calls]
    /\ \E d \in BOOLEAN : args' = [args EXCEPT !.dry_run = d]
    /\ pc' = "read_config"
    /\ token' = ""
    /\ input_channel' = <<>>
    /\ output_channel' = <<>>
    /\ users' = EmptyDict
    /\ message_history' = <<>>
    /\ active_users' = EmptyDict
    /\ idx' = 0
    /\ introduction' = ""
    /\ conclusion' = ""
    /\ stdout' = <<>>
    /\ calls' = <<>>
    /\ error' = "none"
    /\ UNCHANGED <<files, response, clock, snapshot, post_invocations, post_raised>>

\* post_message, lines 87-93, invoked by a caller of the module.
PostMessage ==
    /\ post_invocations < MaxPosts
    /\ \E text \in {"", FullMessage(introduction, conclusion)} :
          LET r == post_message(calls, token, OutputRow["channel_id"], text, "snitch") IN
          /\ calls' = r.calls
          /\ post_raised' = IF r.raised THEN post_raised + 1 ELSE post_raised
    /\ post_invocations' = post_invocations + 1
    /\ UNCHANGED <<files, response, clock, args, pc, token, input_channel,
                   output_channel, users, message_history, active_users, idx,
                   introduction, conclusion, stdout, snapshot, error, runs, prev>>

RunNext ==
    \/ ReadConfigFiles
    \/ HistoryRequest
    \/ HistoryResponse
    \/ Aggregate
    \/ Ranking
    \/ Conclude
    \/ Publish
    \/ Restart

Spec == Init /\ [][RunNext]_vars

PublishNext == RunNext \/ PostMessage

SpecPublish == Init /\ [][PublishNext]_vars

-----------------------------------------------------------------------------
(* aggregate_activity and make_conclusion on their own, on every roster and *)
(* every message sequence within the bounds                                 *)

DistinctSeqs(S, n) == {s \in BoundedSeq(S, n) : \A i, j \in DOMAIN s : s[i] = s[j] => i = j}

RosterOf(ids) == ReadUsers(EmptyDict, CsvFile(UserColumns, [i \in DOMAIN ids |-> UserRow(ids[i])]), 1)

Rosters == {RosterOf(ids) : ids \in DistinctSeqs(UserIds, MaxUsers)}

InitAgg ==
    /\ files = GoodConfig
    /\ response = [raises |-> FALSE, body |-> [ok |-> TRUE, messages |-> <<>>]]
    /\ clock = Now
    /\ args = [num_days |-> DefaultNumDays, dry_run |-> FALSE]
    /\ pc = "agg_init"
    /\ token = ""
    /\ input_channel = <<>>
    /\ output_channel = <<>>
    /\ users \in Rosters
    /\ message_history \in Histories
    /\ active_users = EmptyDict
    /\ idx = 0
    /\ introduction = ""
    /\ conclusion = ""
    /\ stdout = <<>>
    /\ calls = <<>>
    /\ error = "none"
    /\ snapshot = [written |-> FALSE, doc |-> <<>>]
    /\ runs = 1
    /\ prev = NoPrev
    /\ post_invocations = 0
    /\ post_raised = 0

\* Lines 59-62
AggInit ==
    /\ pc = "agg_init"
    /\ active_users' = InitActivity(EmptyDict, users.keys)
    /\ idx' = 1
    /\ pc' = "agg_loop"
    /\ UNCHANGED <<files, response, clock, args, token, input_channel, output_channel,
                   users, message_history, introduction, conclusion, stdout, calls,
                   snapshot, error, runs, prev, post_invocations, post_raised>>

\* Lines 64-70: one turn of the loop over history
AggLoop ==
    /\ pc = "agg_loop"
    /\ idx <= Len(message_history)
    /\ active_users' = RecordMessage(active_users, message_history[idx])
    /\ idx' = idx + 1
    /\ UNCHANGED <<files, response, clock, args, pc, token, input_channel,
                   output_channel, users, message_history, introduction, conclusion,
                   stdout, calls, snapshot, error, runs, prev, post_invocations,
                   post_raised>>

\* Line 71
AggReturn ==
    /\ pc = "agg_loop"
    /\ idx > Len(message_history)
    /\ pc' = "aggregated"
    /\ UNCHANGED <<files, response, clock, args, token, input_channel, output_channel,
                   users, message_history, active_users, idx, introduction, conclusion,
                   stdout, calls, snapshot, error, runs, prev, post_invocations,
                   post_raised>>

\* Lines 76-85, applied to what aggregate_activity returned
MakeConclusion ==
    /\ pc = "aggregated"
    /\ LET r == make_conclusion(active_users, users) IN
       IF r.error # "none"
       THEN Abort(r.error) /\ UNCHANGED conclusion
       ELSE conclusion' = r.value /\ pc' = "concluded" /\ error' = error
    /\ UNCHANGED <<files, response, clock, args, token, input_channel, output_channel,
                   users, message_history, active_users, idx, introduction, stdout,
                   calls, snapshot, runs, prev, post_invocations, post_raised>>

AggNext == AggInit \/ AggLoop \/ AggReturn \/ MakeConclusion

SpecAgg == InitAgg /\ [][AggNext]_vars

-----------------------------------------------------------------------------
(* What the claims speak of *)

\* At least one message of the sequence has user id u.
Posted(u, history) ==
    \E i \in DOMAIN history : "user" \in DOMAIN history[i] /\ history[i]["user"] = u

\* The sequence reordered by a permutation of its positions.
Reordered(history, p) == [i \in DOMAIN history |-> history[p[i]]]

\* The roster users with no message in the sequence.
Absent(roster, history) == {u \in KeySet(roster) : ~Posted(u, history)}

\* Every way to list each element of S exactly once.
Listings(S) ==
    {s \in [1..Cardinality(S) -> S] : \A i, j \in DOMAIN s : s[i] = s[j] => i = j}

AggDone == pc \in {"aggregated", "concluded"}

HistoryRequests == Cardinality({i \in DOMAIN calls : calls[i].method = "channels.history"})

PostRequests == Cardinality({i \in DOMAIN calls : calls[i].method = "chat.postMessage"})

\* The report as one write of print().
ReportWrite == introduction \o "\n" \o conclusion \o "\n"

ReportWrites == Cardinality({i \in DOMAIN stdout : stdout[i] = ReportWrite})

\* A file of the configuration is missing, or a required column is not in
\* the header of a channel file or of the user file.
ConfigFault ==
    \/ ~files.token.exists
    \/ ~files.input.exists
    \/ ~files.output.exists
    \/ ~files.user.exists
    \/ ~(ChannelColumns \subseteq files.input.header)
    \/ ~(ChannelColumns \subseteq files.output.header)
    \/ ~(UserColumns \subseteq files.user.header)

\* The records of a response that are messages with a user and a ts.
WellFormed(records) ==
    LET ok(r) == /\ "type" \in DOMAIN r
                 /\ r["type"] = "message"
                 /\ "user" \in DOMAIN r
                 /\ "ts" \in DOMAIN r
        kept == SelectSeq(records, ok)
    IN [i \in DOMAIN kept |-> [user |-> kept[i]["user"], ts |-> kept[i]["ts"]]]

RunStep ==
    \/ ReadConfigFiles \/ HistoryRequest \/ HistoryResponse \/ Aggregate
    \/ Ranking \/ Conclude \/ Publish

-----------------------------------------------------------------------------
(* The claims *)

\* C1: the map aggregate_activity returns has exactly the roster's keys, no
\* extra key and no missing key, whatever the messages.
C1_KeySetIsRoster == AggDone => KeySet(active_users) = KeySet(users)

\* C2: for every roster user u the returned map holds true exactly when at
\* least one message has user id u, and every reordering of the messages
\* gives every roster user the same value.
C2_PresentIffPosted ==
    AggDone =>
        \A u \in KeySet(users) :
            /\ active_users.val[u] = Posted(u, message_history)
            /\ \A p \in Permutations(DOMAIN message_history) :
                  aggregate_activity(Reordered(message_history, p), users).val[u]
                      = active_users.val[u]

C2_Witness ==
    /\ pc = "aggregated"
    /\ \E u, v \in KeySet(users) : active_users.val[u] /\ ~active_users.val[v]
    /\ \E i, j \in DOMAIN message_history : message_history[i] # message_history[j]

\* C3: a turn of the loop on a message whose user id is not a key of the
\* roster leaves the presence map as it was: no entry changed, none added.
C3_UntrackedIgnored ==
    [][(/\ pc = "agg_loop"
        /\ idx <= Len(message_history)
        /\ "user" \in DOMAIN message_history[idx]
        /\ message_history[idx]["user"] \notin KeySet(users))
       => active_users' = active_users]_vars

\* C4: make_conclusion on the aggregated map never fails; it returns
\* 'Go team!' when every roster user has a message, and otherwise the
\* ', \n'-joined list with exactly one item "real_name (user_name)" for each
\* roster user without a message and no other item.
C4_Conclusion ==
    /\ pc # "aborted"
    /\ pc = "concluded" =>
          IF Absent(users, message_history) = {}
          THEN conclusion = "Go team!"
          ELSE \E s \in Listings(Absent(users, message_history)) :
                  conclusion = Join(", \n",
                      [i \in DOMAIN s |->
                          users.val[s[i]]["real_name"] \o " (" \o
                          users.val[s[i]]["user_name"] \o ")"])

C4_Witness ==
    /\ pc = "concluded"
    /\ Absent(users, message_history) # {}
    /\ \E u \in KeySet(users) : Posted(u, message_history)
    /\ \E u \in UserIds \ KeySet(users) : Posted(u, message_history)

\* C5: with a configuration file missing or a required column absent, the
\* run aborts and the history endpoint is never called.
C5_ConfigFaultIsFatal ==
    ConfigFault => /\ HistoryRequests = 0
                   /\ pc \in {"read_config", "fetch", "aborted"}

\* C6 as claimed: a run that aborts has written nothing to stdout, a run
\* that completes has printed the report, and at most one history request
\* is made per run.
C6_NothingWrittenOnAbort ==
    /\ pc = "aborted" => stdout = <<>>
    /\ pc = "done" => ReportWrites = 1
    /\ HistoryRequests <= 1

\* C6 amended: a run that aborts has written at most the progress line and
\* no part of the report, a run that completes has printed the whole report
\* in one write, last; at most one history request is made per run.
C6_NoPartialReport ==
    /\ pc = "aborted" =>
          \/ stdout = <<>>
          \/ /\ Len(stdout) = 1
             /\ Len(calls) = 1
             /\ stdout[1] = ProgressLine(input_channel["channel_name"],
                                         input_channel["channel_id"], args.num_days,
                                         calls[1].params.oldest) \o "\n"
    /\ pc = "done" => /\ ReportWrites = 1
                      /\ stdout[Len(stdout)] = ReportWrite
    /\ pc \notin {"done", "aborted"} => ReportWrites = 0
    /\ HistoryRequests <= 1

C6_Witness ==
    /\ pc = "aborted"
    /\ response.raises
    /\ Len(stdout) = 1
    /\ HistoryRequests = 1

\* C7: the message-post endpoint is never called, with dry_run set or
\* unset, and every invocation of post_message raises before any call.
C7_PublishingDisabled ==
    /\ PostRequests = 0
    /\ post_raised = post_invocations

C7_Witness ==
    /\ pc = "done"
    /\ ~args.dry_run
    /\ post_invocations > 0

\* C8: two runs on the same configuration and the same answer end alike
\* whatever their dry_run flags: the same requests and the same writes to
\* stdout; a completed run has printed the report exactly once, as its last
\* write, and takes no further step.
C8_DryRunIgnored ==
    /\ (prev.valid /\ Terminated) =>
          /\ pc = prev.pc
          /\ calls = prev.calls
          /\ stdout = prev.stdout
    /\ pc = "done" => /\ ReportWrites = 1
                      /\ stdout[Len(stdout)] = ReportWrite
                      /\ ~ENABLED RunStep

C8_Witness ==
    /\ prev.valid
    /\ pc = "done"
    /\ prev.dry_run # args.dry_run

\* C9 as claimed: the report is the introduction line, an empty line, then
\* the conclusion block.
C9_BlankLineBetween ==
    pc = "done" =>
        stdout[Len(stdout)] = Join("\n", <<introduction, "", conclusion>>) \o "\n"

\* C9 amended: the report is the introduction line and then, on the next
\* line, the conclusion block: one newline between them, no empty line.
C9_ReportLayout ==
    pc = "done" =>
        /\ introduction = "Who's NOT present in the last " \o ToString(args.num_days)
                              \o " days on #" \o input_channel["channel_name"] \o "?"
        /\ conclusion = make_conclusion(active_users, users).value
        /\ stdout[Len(stdout)] = introduction \o "\n" \o conclusion \o "\n"

C9_Witness ==
    /\ pc = "done"
    /\ conclusion # "Go team!"

\* C10: once the history response has been received and holds a list of
\* records, get_message_history has returned, without an error, the records
\* that are messages with a user and a ts, in order, reduced to user and ts.
C10_FilterDropsMalformed ==
    (/\ snapshot.written
     /\ "messages" \in DOMAIN response.body
     /\ pc \notin {"read_config", "fetch", "await_history"})
    => /\ pc # "aborted"
       /\ message_history = WellFormed(response.body["messages"])

====
